---- MODULE Spec2Model ----
(***************************************************************************)
(* Model of the mavros IMU plugin (mavros/src/plugins/imu.cpp): the three  *)
(* source flags, the cached linear acceleration, the covariance matrices   *)
(* and the six message handlers plus the connection callback.  Every       *)
(* handler is one atomic step (the host delivers messages serially).       *)
(*                                                                         *)
(* Numbers.  The code works on doubles; the model uses integers in fixed   *)
(* units so that the scalings of the code stay visible:                    *)
(*   acceleration  1e-8 m/s^2     (1 m/s^2 = AccUnit, 1 milli-G = 980665)  *)
(*   angular rate  1e-3 rad/s     (1 rad/s = GyroUnit)                     *)
(*   magnetic      1e-4 T         (1 Gauss = 1, 1 "milliTesla" = 1e7)      *)
(*   pressure      1 Pa           (1 millibar = 100)                       *)
(*   temperature   0.01 degC      (1 degC = TempUnit)                      *)
(***************************************************************************)
EXTENDS Integers, Sequences, FiniteSets, TLC

VARIABLES
    pc,                       \* "constructed" until initialize() ran, then "ready"
    has_hr_imu,               \* imu.cpp:124
    has_scaled_imu,           \* imu.cpp:125
    has_att_quat,             \* imu.cpp:126
    linear_accel_vec_enu,     \* imu.cpp:127
    linear_accel_vec_ned,     \* imu.cpp:128
    linear_acceleration_cov,  \* imu.cpp:129
    angular_velocity_cov,     \* imu.cpp:130
    orientation_cov,          \* imu.cpp:131
    unk_orientation_cov,      \* imu.cpp:132
    magnetic_cov,             \* imu.cpp:133
    last,                     \* observation: the event handled by the last step
    out,                      \* observation: the dispatches of the last step, in order
    pre,                      \* observation: flags and cache before the last step
    seen,                     \* history: source kinds handled since the last connection event
    last_inertial,            \* history: the latest inertial message that called
                              \*          publish_imu_data_raw, and the acceleration it passed
    params,                   \* history: the parameters initialize() read
    effects                   \* observation: the member writes and dispatches of the last
                              \*          step, in program order

flags == <<has_hr_imu, has_scaled_imu, has_att_quat>>
cache == <<linear_accel_vec_enu, linear_accel_vec_ned>>
covs  == <<linear_acceleration_cov, angular_velocity_cov, orientation_cov,
           unk_orientation_cov, magnetic_cov>>
obs   == <<last, out, pre, seen, last_inertial, params, effects>>
vars  == <<pc, flags, cache, covs, obs>>

(***************************************************************************)
(* Bounds of the model.                                                    *)
(***************************************************************************)
MaxSample  == 1   \* sensor readings are k * base vector, k \in 0..MaxSample
MaxStdev   == 1   \* configured orientation stdev 0..MaxStdev
MaxGarbage == 1   \* uninitialised doubles read as 0..MaxGarbage
MaxCovStdev == 2  \* setup_covariance is given stdev -MaxCovStdev..MaxCovStdev
MaxFieldBit == 15  \* fields_updated (uint16) ranges over bits 0..MaxFieldBit

(***************************************************************************)
(* Unit coefficients (imu.cpp:32-48) in the fixed units above.             *)
(***************************************************************************)
AccUnit            == 100000000
MILLIG_TO_MS2      == 980665
GyroUnit           == 1000
MILLIRS_TO_RADSEC  == 1
GAUSS_TO_TESLA     == 1
MILLIT_TO_TESLA    == 10000000
MILLIBAR_TO_PASCAL == 100
TempUnit           == 100

frame_id == "base_link"

Samples == 0..MaxSample
\* Sample k is taken at device time 10 + k.
TimeOf(k) == 10 + k

Vec(k, a, b, c) == <<k * a, k * b, k * c>>
Scale(v, c)     == <<v[1] * c, v[2] * c, v[3] * c>>
Zero3           == <<0, 0, 0>>

\* Eigen::Vector3d members are not initialised by the constructor.
GarbageVec == { <<g, g, g>> : g \in 0..MaxGarbage }
\* ftf::Covariance3d members are not initialised by the constructor.
GarbageCov == { [i \in 1..9 |-> g] : g \in 0..MaxGarbage }

(***************************************************************************)
(* Bit operations on the uint16 field-presence mask.                       *)
(***************************************************************************)
RECURSIVE BitAnd(_, _)
BitAnd(a, b) ==
    IF a = 0 \/ b = 0 THEN 0
    ELSE (IF a % 2 = 1 /\ b % 2 = 1 THEN 1 ELSE 0) + 2 * BitAnd(a \div 2, b \div 2)

RECURSIVE BitOr(_, _)
BitOr(a, b) ==
    IF a = 0 THEN b
    ELSE IF b = 0 THEN a
    ELSE (IF a % 2 = 1 \/ b % 2 = 1 THEN 1 ELSE 0) + 2 * BitOr(a \div 2, b \div 2)

ShiftLeft(a, n) == a * 2^n

(***************************************************************************)
(* Collaborators outside imu.cpp.                                          *)
(***************************************************************************)
\* ftf::transform_frame_aircraft_baselink: the fixed rotation by pi about X.
transform_frame_aircraft_baselink(v) == <<v[1], -v[2], -v[3]>>
\* Orientation algebra is kept symbolic: the terms record which rotations were composed.
quaternion_from_rpy(r, p, y)                   == <<"rpy", r, p, y>>
transform_orientation_ned_enu(q)               == <<"ned_enu", q>>
transform_orientation_aircraft_baselink(q)     == <<"aircraft_baselink", q>>
\* UAS::synchronized_header: frame id plus the synchronised device time.
synchronized_header(frame, time)               == [frame_id |-> frame, stamp |-> <<"sync", time>>]

(***************************************************************************)
(* setup_covariance, imu.cpp:143-151.                                      *)
(***************************************************************************)
\* Faulty variant: the matrix is not cleared before the diagonal is set.
setup_covariance_without_fill(cov, stdev) ==
    IF stdev = 0
    THEN [cov EXCEPT ![1] = -1]
    ELSE [cov EXCEPT ![1] = stdev * stdev, ![5] = stdev * stdev, ![9] = stdev * stdev]

setup_covariance(cov, stdev) ==
    LET filled == [i \in DOMAIN cov |-> 0]
    IN  IF stdev = 0
        THEN [filled EXCEPT ![1] = -1]
        ELSE [filled EXCEPT ![1] = stdev * stdev, ![5] = stdev * stdev, ![9] = stdev * stdev]

(***************************************************************************)
(* Inbound messages (decoded MAVLink structures), in their own units.      *)
(***************************************************************************)
AttitudeMsgs ==
    { [time_boot_ms |-> TimeOf(k), rpy |-> Vec(k, 1, 2, 3), speed |-> Vec(k, 4, 5, 6)] :
        k \in Samples }

AttitudeQuaternionMsgs ==
    { [time_boot_ms |-> TimeOf(k), q |-> <<1, k, 2 * k, 3 * k>>, speed |-> Vec(k, 4, 5, 6)] :
        k \in Samples }

\* fields_updated: no bit, one bit of each group alone (xacc, xmag, abs_pressure,
\* temperature), one bit of no group (diff_pressure), and all thirteen bits.
FieldBits == {0, 6, 9, 12, 10}
RECURSIVE BitSum(_)
BitSum(S) == IF S = {} THEN 0 ELSE LET b == CHOOSE x \in S : TRUE IN 2^b + BitSum(S \ {b})
FieldsUpdated == {0, BitSum(0..12)} \cup { 2^b : b \in FieldBits }

HighresImuMsgs ==
    { [time_usec |-> TimeOf(k), acc |-> Vec(k, 1, 2, 3), gyro |-> Vec(k, 4, 5, 6),
       mag |-> Vec(k, 7, 8, 9), abs_pressure |-> 1000 + k, temperature |-> 20 + k,
       fields_updated |-> f] :
        k \in Samples, f \in FieldsUpdated }

\* RAW_IMU and SCALED_IMU carry int16 readings.
RawImuMsgs ==
    { [time_usec |-> TimeOf(k), acc |-> Vec(k, 1, 2, 3), gyro |-> Vec(k, 4, 5, 6),
       mag |-> Vec(k, 7, 8, 9)] :
        k \in Samples }

ScaledImuMsgs ==
    { [time_boot_ms |-> TimeOf(k), acc |-> Vec(k, 1, 2, 3), gyro |-> Vec(k, 4, 5, 6),
       mag |-> Vec(k, 7, 8, 9)] :
        k \in Samples }

ScaledPressureMsgs ==
    { [time_boot_ms |-> TimeOf(k), press_abs |-> 1000 + k, temperature |-> 2000 + k] :
        k \in Samples }

(***************************************************************************)
(* Outbound records and sinks.                                             *)
(***************************************************************************)
Dispatch(sink, msg) == [sink |-> sink, msg |-> msg]

\* boost::make_shared<sensor_msgs::Imu>(): every field zero.
EmptyImu ==
    [type |-> "Imu", header |-> [frame_id |-> "", stamp |-> <<"sync", 0>>],
     orientation |-> <<0, 0, 0, 0>>, angular_velocity |-> Zero3,
     linear_acceleration |-> Zero3,
     orientation_covariance |-> [i \in 1..9 |-> 0],
     angular_velocity_covariance |-> [i \in 1..9 |-> 0],
     linear_acceleration_covariance |-> [i \in 1..9 |-> 0]]

\* Faulty variants: the NED record takes the ENU vector; the NED record gets the
\* "unknown" orientation covariance.
imu_ned_linear_acceleration_from_enu   == linear_accel_vec_enu
imu_ned_orientation_covariance_unknown == unk_orientation_cov

\* imu.cpp:179-180: the attitude records take the cached acceleration.
imu_enu_linear_acceleration == linear_accel_vec_enu
imu_ned_linear_acceleration == linear_accel_vec_ned

\* imu.cpp:182 and imu.cpp:186: orientation covariance of the two attitude records.
imu_enu_orientation_covariance == orientation_cov
imu_ned_orientation_covariance == orientation_cov

\* imu.cpp:164-188: the ENU (base_link) and the NED (aircraft) record.
imu_enu_msg(time_boot_ms, orientation_enu, gyro_enu) ==
    [EmptyImu EXCEPT
        !.header = synchronized_header(frame_id, time_boot_ms),
        !.orientation = orientation_enu,
        !.angular_velocity = gyro_enu,
        !.linear_acceleration = imu_enu_linear_acceleration,
        !.orientation_covariance = imu_enu_orientation_covariance,
        !.angular_velocity_covariance = angular_velocity_cov,
        !.linear_acceleration_covariance = linear_acceleration_cov]

imu_ned_msg(time_boot_ms, orientation_ned, gyro_ned) ==
    [EmptyImu EXCEPT
        !.header = synchronized_header("aircraft", time_boot_ms),
        !.orientation = orientation_ned,
        !.angular_velocity = gyro_ned,
        !.linear_acceleration = imu_ned_linear_acceleration,
        !.orientation_covariance = imu_ned_orientation_covariance,
        !.angular_velocity_covariance = angular_velocity_cov,
        !.linear_acceleration_covariance = linear_acceleration_cov]

\* Faulty variant: the NED record is never handed over.
imu_data_dispatches_without_ned(enu, ned) ==
    << Dispatch("uas_attitude_imu_enu", enu),
       Dispatch("imu_pub", enu) >>

\* imu.cpp:190-200: both records are stored in the UAS, the ENU one is published.
imu_data_dispatches(enu, ned) ==
    << Dispatch("uas_attitude_imu_enu", enu),
       Dispatch("uas_attitude_imu_ned", ned),
       Dispatch("imu_pub", enu) >>

\* imu.cpp:161-201.
publish_imu_data(time_boot_ms, orientation_enu, orientation_ned, gyro_enu, gyro_ned) ==
    imu_data_dispatches(imu_enu_msg(time_boot_ms, orientation_enu, gyro_enu),
                        imu_ned_msg(time_boot_ms, orientation_ned, gyro_ned))

\* imu.cpp:213-233: the data_raw record (the cache write of 224-225 is in the handlers).
imu_raw_msg(header, gyro, accel_enu) ==
    [EmptyImu EXCEPT
        !.header = header,
        !.angular_velocity = gyro,
        !.linear_acceleration = accel_enu,
        !.orientation_covariance = unk_orientation_cov,
        !.angular_velocity_covariance = angular_velocity_cov,
        !.linear_acceleration_covariance = linear_acceleration_cov]

\* imu.cpp:210-234: the dispatch of publish_imu_data_raw.
publish_imu_data_raw(header, gyro, accel_enu, accel_ned) ==
    << Dispatch("imu_raw_pub", imu_raw_msg(header, gyro, accel_enu)) >>

\* imu.cpp:241-255.
publish_mag(header, mag_field) ==
    << Dispatch("magn_pub",
                [type |-> "MagneticField", header |-> header,
                 magnetic_field |-> mag_field,
                 magnetic_field_covariance |-> magnetic_cov]) >>

(***************************************************************************)
(* The arbiter's early returns.                                            *)
(***************************************************************************)
\* Faulty variants, used to show that the properties below depend on the guards.
attitude_dropped_never            == FALSE
raw_imu_dropped_ignores_highres   == has_scaled_imu
scaled_imu_dropped_never          == FALSE
scaled_pressure_dropped_by_scaled == has_hr_imu \/ has_scaled_imu
scaled_imu_dropped_by_quat        == has_att_quat
attitude_dropped_by_highres       == has_hr_imu
raw_imu_dropped_by_highres_only   == has_hr_imu
scaled_pressure_dropped_never     == FALSE

attitude_dropped        == has_att_quat                    \* imu.cpp:267-268
raw_imu_dropped         == has_hr_imu \/ has_scaled_imu    \* imu.cpp:395-396
scaled_imu_dropped      == has_hr_imu                      \* imu.cpp:438-439
scaled_pressure_dropped == has_hr_imu                      \* imu.cpp:470-471

(***************************************************************************)
(* Observation of one step: the event, whether it passed the arbiter, its  *)
(* dispatches, and the flags and cache it started from.                    *)
(***************************************************************************)
\* The message kinds whose arrival the arbiter's rules speak of.
SourceKinds == {"HIGHRES_IMU", "SCALED_IMU", "RAW_IMU", "ATTITUDE_QUATERNION"}

Snapshot ==
    [has_hr_imu |-> has_hr_imu, has_scaled_imu |-> has_scaled_imu,
     has_att_quat |-> has_att_quat,
     linear_accel_vec_enu |-> linear_accel_vec_enu,
     linear_accel_vec_ned |-> linear_accel_vec_ned]

Observe(event, accepted, dispatches) ==
    /\ last' = [event EXCEPT !.accepted = accepted]
    /\ out' = dispatches
    /\ pre' = Snapshot
    /\ seen' = IF event.kind = "connection" THEN {}
               ELSE seen \cup ({event.kind} \cap SourceKinds)

\* One entry of the program-order record of a step.
Write(member) == [op |-> "write", target |-> member]
Publish(sink) == [op |-> "dispatch", target |-> sink]

\* imu.cpp:85-89.
initialize_effects ==
    << Write("linear_acceleration_cov"), Write("angular_velocity_cov"),
       Write("orientation_cov"), Write("magnetic_cov"), Write("unk_orientation_cov") >>

\* imu.cpp:492-494.
connection_cb_effects ==
    << Write("has_hr_imu"), Write("has_scaled_imu"), Write("has_att_quat") >>

\* imu.cpp:192-200: publish_imu_data writes no member.
publish_imu_data_effects ==
    << Publish("uas_attitude_imu_enu"), Publish("uas_attitude_imu_ned"), Publish("imu_pub") >>

\* Faulty variant: the record is published before the readings are saved.
publish_imu_data_raw_effects_publish_first ==
    << Publish("imu_raw_pub"), Write("linear_accel_vec_enu"), Write("linear_accel_vec_ned") >>

\* imu.cpp:224-233: publish_imu_data_raw saves the readings, then publishes.
publish_imu_data_raw_effects ==
    << Write("linear_accel_vec_enu"), Write("linear_accel_vec_ned"), Publish("imu_raw_pub") >>

\* imu.cpp:415-420: the zeroing that follows publish_imu_data_raw off APM.
raw_imu_zeroing_effects(is_ardupilotmega) ==
    IF is_ardupilotmega THEN <<>>
    ELSE << Write("linear_accel_vec_enu"), Write("linear_accel_vec_ned") >>

\* imu.cpp:413-427.
raw_imu_effects(is_ardupilotmega) ==
    publish_imu_data_raw_effects \o raw_imu_zeroing_effects(is_ardupilotmega)
        \o << Publish("magn_pub") >>

\* imu.cpp:442-459.
scaled_imu_effects ==
    << Write("has_scaled_imu") >> \o publish_imu_data_raw_effects \o << Publish("magn_pub") >>

\* imu.cpp:478-483.
scaled_pressure_effects == << Publish("temp_pub"), Publish("press_pub") >>

\* The history entry of an inertial message that called publish_imu_data_raw.
Published(kind, is_ardupilotmega, accel_enu, accel_ned) ==
    [kind |-> kind, is_ardupilotmega |-> is_ardupilotmega,
     accel_enu |-> accel_enu, accel_ned |-> accel_ned]

Event(kind, msg) == [kind |-> kind, msg |-> msg, accepted |-> TRUE]

(***************************************************************************)
(* Construction and initialize(), imu.cpp:60-101.                          *)
(***************************************************************************)
Init ==
    /\ pc = "constructed"
    /\ has_hr_imu = FALSE
    /\ has_scaled_imu = FALSE
    /\ has_att_quat = FALSE
    /\ linear_accel_vec_enu \in GarbageVec
    /\ linear_accel_vec_ned \in GarbageVec
    /\ linear_acceleration_cov \in GarbageCov
    /\ angular_velocity_cov \in GarbageCov
    /\ orientation_cov \in GarbageCov
    /\ unk_orientation_cov \in GarbageCov
    /\ magnetic_cov \in GarbageCov
    /\ last = Event("none", <<>>)
    /\ out = <<>>
    /\ effects = <<>>
    /\ pre = [has_hr_imu |-> FALSE, has_scaled_imu |-> FALSE, has_att_quat |-> FALSE,
              linear_accel_vec_enu |-> linear_accel_vec_enu,
              linear_accel_vec_ned |-> linear_accel_vec_ned]
    /\ seen = {}
    /\ last_inertial = [kind |-> "none", is_ardupilotmega |-> FALSE,
                         accel_enu |-> Zero3, accel_ned |-> Zero3]
    /\ params = "unset"

\* The parameter server's answers: linear and angular stdev are non-zero and differ,
\* magnetic stdev has its default 0, orientation stdev ranges over 0..MaxStdev.
StdevParams ==
    { [linear_stdev |-> 3, angular_stdev |-> 2, orientation_stdev |-> o, mag_stdev |-> 0] :
        o \in 0..MaxStdev }

initialize(p) ==
    /\ pc = "constructed"
    /\ pc' = "ready"
    /\ linear_acceleration_cov' = setup_covariance(linear_acceleration_cov, p.linear_stdev)
    /\ angular_velocity_cov' = setup_covariance(angular_velocity_cov, p.angular_stdev)
    /\ orientation_cov' = setup_covariance(orientation_cov, p.orientation_stdev)
    /\ magnetic_cov' = setup_covariance(magnetic_cov, p.mag_stdev)
    /\ unk_orientation_cov' = setup_covariance(unk_orientation_cov, 0)
    /\ params' = p
    /\ Observe(Event("initialize", p), TRUE, <<>>)
    /\ effects' = initialize_effects
    /\ UNCHANGED <<flags, cache, last_inertial>>

(***************************************************************************)
(* connection_cb, imu.cpp:490-495.                                         *)
(***************************************************************************)
\* Faulty variant: the quaternion flag survives the reset.
connection_cb_keeps_att_quat(connected) ==
    /\ pc = "ready"
    /\ has_hr_imu' = FALSE
    /\ has_scaled_imu' = FALSE
    /\ Observe(Event("connection", [connected |-> connected]), TRUE, <<>>)
    /\ effects' = << Write("has_hr_imu"), Write("has_scaled_imu") >>
    /\ UNCHANGED <<pc, has_att_quat, cache, covs, last_inertial, params>>

\* Faulty variant: the reset also clears the cached acceleration.
connection_cb_clears_cache(connected) ==
    /\ pc = "ready"
    /\ has_hr_imu' = FALSE
    /\ has_scaled_imu' = FALSE
    /\ has_att_quat' = FALSE
    /\ linear_accel_vec_enu' = Zero3
    /\ linear_accel_vec_ned' = Zero3
    /\ Observe(Event("connection", [connected |-> connected]), TRUE, <<>>)
    /\ effects' = connection_cb_effects
                      \o << Write("linear_accel_vec_enu"), Write("linear_accel_vec_ned") >>
    /\ UNCHANGED <<pc, covs, last_inertial, params>>

connection_cb(connected) ==
    /\ pc = "ready"
    /\ has_hr_imu' = FALSE
    /\ has_scaled_imu' = FALSE
    /\ has_att_quat' = FALSE
    /\ Observe(Event("connection", [connected |-> connected]), TRUE, <<>>)
    /\ effects' = connection_cb_effects
    /\ UNCHANGED <<pc, cache, covs, last_inertial, params>>

(***************************************************************************)
(* handle_attitude, imu.cpp:265-291.                                       *)
(***************************************************************************)
handle_attitude(att) ==
    /\ pc = "ready"
    /\ IF attitude_dropped
       THEN Observe(Event("ATTITUDE", att), FALSE, <<>>) /\ effects' = <<>>
       ELSE LET ned_aircraft_orientation ==
                    quaternion_from_rpy(att.rpy[1], att.rpy[2], att.rpy[3])
                gyro_ned == Scale(att.speed, GyroUnit)
                enu_baselink_orientation ==
                    transform_orientation_aircraft_baselink(
                        transform_orientation_ned_enu(ned_aircraft_orientation))
                gyro_enu == transform_frame_aircraft_baselink(gyro_ned)
            IN  /\ Observe(Event("ATTITUDE", att), TRUE,
                           publish_imu_data(att.time_boot_ms, enu_baselink_orientation,
                                            ned_aircraft_orientation, gyro_enu, gyro_ned))
                /\ effects' = publish_imu_data_effects
    /\ UNCHANGED <<pc, flags, cache, covs, last_inertial, params>>

(***************************************************************************)
(* handle_attitude_quaternion, imu.cpp:299-326.                            *)
(***************************************************************************)
handle_attitude_quaternion(att_q) ==
    /\ pc = "ready"
    /\ has_att_quat' = TRUE
    /\ LET ned_aircraft_orientation == <<"wxyz", att_q.q[1], att_q.q[2], att_q.q[3], att_q.q[4]>>
           gyro_ned == Scale(att_q.speed, GyroUnit)
           enu_baselink_orientation ==
               transform_orientation_aircraft_baselink(
                   transform_orientation_ned_enu(ned_aircraft_orientation))
           gyro_enu == transform_frame_aircraft_baselink(gyro_ned)
       IN  Observe(Event("ATTITUDE_QUATERNION", att_q), TRUE,
                   publish_imu_data(att_q.time_boot_ms, enu_baselink_orientation,
                                    ned_aircraft_orientation, gyro_enu, gyro_ned))
    /\ effects' = << Write("has_att_quat") >> \o publish_imu_data_effects
    /\ UNCHANGED <<pc, has_hr_imu, has_scaled_imu, cache, covs, last_inertial, params>>

(***************************************************************************)
(* handle_highres_imu, imu.cpp:334-385.                                    *)
(***************************************************************************)
\* Faulty variant: the magnetometer group is tested one bit too high.
hr_has_mag_shifted(fields_updated) == BitAnd(fields_updated, ShiftLeft(7, 7)) # 0

\* Faulty variant: the accel+gyro group is taken as present whatever the mask says.
hr_has_accel_gyro_always(fields_updated) == TRUE

\* imu.cpp:346, 357, 366, 377: the field-presence tests.
hr_has_accel_gyro(fields_updated) ==
    BitAnd(fields_updated, BitOr(ShiftLeft(7, 3), ShiftLeft(7, 0))) # 0
hr_has_mag(fields_updated)         == BitAnd(fields_updated, ShiftLeft(7, 6)) # 0
hr_has_pressure(fields_updated)    == BitAnd(fields_updated, ShiftLeft(1, 9)) # 0
hr_has_temperature(fields_updated) == BitAnd(fields_updated, ShiftLeft(1, 12)) # 0

\* imu.cpp:366-373.
hr_pressure_dispatch(header, imu_hr) ==
    << Dispatch("press_pub",
                [type |-> "FluidPressure", header |-> header,
                 fluid_pressure |-> imu_hr.abs_pressure * MILLIBAR_TO_PASCAL]) >>

\* imu.cpp:377-384.
hr_temperature_dispatch(header, imu_hr) ==
    << Dispatch("temp_pub",
                [type |-> "Temperature", header |-> header,
                 temperature |-> imu_hr.temperature * TempUnit]) >>

\* Faulty variant: the flag is left as it was.
hr_flag_after_unset == has_hr_imu

\* imu.cpp:337: the flag is set whatever fields_updated says.
hr_flag_after == TRUE

handle_highres_imu(imu_hr) ==
    /\ pc = "ready"
    /\ has_hr_imu' = hr_flag_after
    /\ LET header    == synchronized_header(frame_id, imu_hr.time_usec)
           gyro      == transform_frame_aircraft_baselink(Scale(imu_hr.gyro, GyroUnit))
           accel_ned == Scale(imu_hr.acc, AccUnit)
           accel_enu == transform_frame_aircraft_baselink(accel_ned)
           mag_field == transform_frame_aircraft_baselink(Scale(imu_hr.mag, GAUSS_TO_TESLA))
           f         == imu_hr.fields_updated
       IN  /\ IF hr_has_accel_gyro(f)
              THEN /\ linear_accel_vec_enu' = accel_enu
                   /\ linear_accel_vec_ned' = accel_ned
                   /\ last_inertial' = Published("HIGHRES_IMU", FALSE, accel_enu, accel_ned)
              ELSE UNCHANGED <<cache, last_inertial>>
           /\ Observe(Event("HIGHRES_IMU", imu_hr), TRUE,
                  (IF hr_has_accel_gyro(f)
                   THEN publish_imu_data_raw(header, gyro, accel_enu, accel_ned) ELSE <<>>)
                  \o (IF hr_has_mag(f) THEN publish_mag(header, mag_field) ELSE <<>>)
                  \o (IF hr_has_pressure(f) THEN hr_pressure_dispatch(header, imu_hr) ELSE <<>>)
                  \o (IF hr_has_temperature(f)
                      THEN hr_temperature_dispatch(header, imu_hr) ELSE <<>>))
           /\ effects' = << Write("has_hr_imu") >>
                  \o (IF hr_has_accel_gyro(f) THEN publish_imu_data_raw_effects ELSE <<>>)
                  \o (IF hr_has_mag(f) THEN << Publish("magn_pub") >> ELSE <<>>)
                  \o (IF hr_has_pressure(f) THEN << Publish("press_pub") >> ELSE <<>>)
                  \o (IF hr_has_temperature(f) THEN << Publish("temp_pub") >> ELSE <<>>)
    /\ UNCHANGED <<pc, has_scaled_imu, has_att_quat, covs, params>>

(***************************************************************************)
(* handle_raw_imu, imu.cpp:393-428.  is_ardupilotmega is a property of the *)
(* connected autopilot, read from the UAS.                                 *)
(***************************************************************************)
\* Faulty variant: the cache keeps the reading on every firmware.
raw_cache_after_never_zeroed(is_ardupilotmega, accel) == accel

\* imu.cpp:413-420: the cache after publish_imu_data_raw and the non-APM zeroing.
raw_cache_after(is_ardupilotmega, accel) == IF is_ardupilotmega THEN accel ELSE Zero3

handle_raw_imu(imu_raw, is_ardupilotmega) ==
    /\ pc = "ready"
    /\ LET event == [kind |-> "RAW_IMU", msg |-> imu_raw, accepted |-> TRUE,
                     is_ardupilotmega |-> is_ardupilotmega]
       IN
       IF raw_imu_dropped
       THEN /\ Observe(event, FALSE, <<>>)
            /\ effects' = <<>>
            /\ UNCHANGED <<cache, last_inertial>>
       ELSE LET header == synchronized_header(frame_id, imu_raw.time_usec)
                gyro == transform_frame_aircraft_baselink(
                            Scale(imu_raw.gyro, MILLIRS_TO_RADSEC))
                \* 405-411: unscaled counts taken as m/s^2, or milli-G on APM
                accel_ned == IF is_ardupilotmega
                             THEN Scale(imu_raw.acc, MILLIG_TO_MS2)
                             ELSE Scale(imu_raw.acc, AccUnit)
                accel_enu == transform_frame_aircraft_baselink(accel_ned)
                mag_field == transform_frame_aircraft_baselink(
                                 Scale(imu_raw.mag, MILLIT_TO_TESLA))
            IN  /\ linear_accel_vec_enu' = raw_cache_after(is_ardupilotmega, accel_enu)
                /\ linear_accel_vec_ned' = raw_cache_after(is_ardupilotmega, accel_ned)
                /\ last_inertial' =
                       Published("RAW_IMU", is_ardupilotmega, accel_enu, accel_ned)
                /\ Observe(event, TRUE,
                           publish_imu_data_raw(header, gyro, accel_enu, accel_ned)
                           \o publish_mag(header, mag_field))
                /\ effects' = raw_imu_effects(is_ardupilotmega)
    /\ UNCHANGED <<pc, flags, covs, params>>

(***************************************************************************)
(* handle_scaled_imu, imu.cpp:436-460.                                     *)
(***************************************************************************)
handle_scaled_imu(imu_raw) ==
    /\ pc = "ready"
    /\ IF scaled_imu_dropped
       THEN /\ Observe(Event("SCALED_IMU", imu_raw), FALSE, <<>>)
            /\ effects' = <<>>
            /\ UNCHANGED <<has_scaled_imu, cache, last_inertial>>
       ELSE LET header == synchronized_header(frame_id, imu_raw.time_boot_ms)
                gyro == transform_frame_aircraft_baselink(
                            Scale(imu_raw.gyro, MILLIRS_TO_RADSEC))
                accel_ned == Scale(imu_raw.acc, MILLIG_TO_MS2)
                accel_enu == transform_frame_aircraft_baselink(accel_ned)
                mag_field == transform_frame_aircraft_baselink(
                                 Scale(imu_raw.mag, MILLIT_TO_TESLA))
            IN  /\ has_scaled_imu' = TRUE
                /\ linear_accel_vec_enu' = accel_enu
                /\ linear_accel_vec_ned' = accel_ned
                /\ last_inertial' = Published("SCALED_IMU", FALSE, accel_enu, accel_ned)
                /\ Observe(Event("SCALED_IMU", imu_raw), TRUE,
                           publish_imu_data_raw(header, gyro, accel_enu, accel_ned)
                           \o publish_mag(header, mag_field))
                /\ effects' = scaled_imu_effects
    /\ UNCHANGED <<pc, has_hr_imu, has_att_quat, covs, params>>

(***************************************************************************)
(* handle_scaled_pressure, imu.cpp:468-484.                                *)
(***************************************************************************)
\* imu.cpp:473-483: temperature first, then pressure.  temperature is in 0.01 degC
\* (divided by 100.0 to degC), press_abs in hectopascal.
scaled_pressure_dispatches(press) ==
    LET header == synchronized_header(frame_id, press.time_boot_ms)
    IN  << Dispatch("temp_pub",
                    [type |-> "Temperature", header |-> header,
                     temperature |-> (press.temperature * TempUnit) \div 100]),
           Dispatch("press_pub",
                    [type |-> "FluidPressure", header |-> header,
                     fluid_pressure |-> press.press_abs * 100]) >>

handle_scaled_pressure(press) ==
    /\ pc = "ready"
    /\ IF scaled_pressure_dropped
       THEN Observe(Event("SCALED_PRESSURE", press), FALSE, <<>>) /\ effects' = <<>>
       ELSE /\ Observe(Event("SCALED_PRESSURE", press), TRUE,
                       scaled_pressure_dispatches(press))
            /\ effects' = scaled_pressure_effects
    /\ UNCHANGED <<pc, flags, cache, covs, last_inertial, params>>

(***************************************************************************)
(* The plugin: initialize() once, then connection events and messages in   *)
(* any order, one at a time.                                               *)
(***************************************************************************)
Next ==
    \/ \E p \in StdevParams : initialize(p)
    \/ \E connected \in BOOLEAN : connection_cb(connected)
    \/ \E att \in AttitudeMsgs : handle_attitude(att)
    \/ \E att_q \in AttitudeQuaternionMsgs : handle_attitude_quaternion(att_q)
    \/ \E imu_hr \in HighresImuMsgs : handle_highres_imu(imu_hr)
    \/ \E imu_raw \in RawImuMsgs, apm \in BOOLEAN : handle_raw_imu(imu_raw, apm)
    \/ \E imu_raw \in ScaledImuMsgs : handle_scaled_imu(imu_raw)
    \/ \E press \in ScaledPressureMsgs : handle_scaled_pressure(press)

Spec == Init /\ [][Next]_vars

\* The program-order record agrees with the dispatches and with the state change.
DispatchesOf(e) == SelectSeq(e, LAMBDA x : x.op = "dispatch")
WritesOf(e)     == { e[i].target : i \in { j \in 1..Len(e) : e[j].op = "write" } }
EffectsConsistent ==
    /\ [i \in 1..Len(DispatchesOf(effects)) |-> DispatchesOf(effects)[i].target]
           = [i \in 1..Len(out) |-> out[i].sink]
    /\ \A m \in DOMAIN pre : Snapshot[m] # pre[m] => m \in WritesOf(effects)

(***************************************************************************)
(* Vocabulary of the properties.                                           *)
(***************************************************************************)
AttitudeKinds == {"ATTITUDE", "ATTITUDE_QUATERNION"}
InertialKinds == {"HIGHRES_IMU", "SCALED_IMU", "RAW_IMU"}
MessageKinds  == AttitudeKinds \cup InertialKinds \cup {"SCALED_PRESSURE"}

Sinks(d)      == [i \in 1..Len(d) |-> d[i].sink]
CountSink(d, sink) == Cardinality({ i \in 1..Len(d) : d[i].sink = sink })
Unchanged     == Snapshot = pre

(***************************************************************************)
(* C1.  Once a HIGHRES_IMU message has been handled, every SCALED_IMU and  *)
(* every RAW_IMU message handled before the next connection event is       *)
(* dropped: it dispatches nothing to any sink.                             *)
(***************************************************************************)
C1_HighresSuppressesScaledAndRaw ==
    (last.kind \in {"SCALED_IMU", "RAW_IMU"} /\ "HIGHRES_IMU" \in seen)
        => (out = <<>> /\ ~last.accepted)

\* A RAW_IMU message arrives after a HIGHRES_IMU and a SCALED_IMU of the same connection.
C1_Witness ==
    /\ last.kind = "RAW_IMU"
    /\ {"HIGHRES_IMU", "SCALED_IMU"} \subseteq seen
    /\ out = <<>>

(***************************************************************************)
(* C2.  An ATTITUDE message handled after an ATTITUDE_QUATERNION of the    *)
(* same connection is dropped with no output and no state change; an       *)
(* ATTITUDE message handled when no ATTITUDE_QUATERNION was handled since  *)
(* the last connection event produces the attitude output records.         *)
(***************************************************************************)
C2_QuaternionSuppressesEuler ==
    last.kind = "ATTITUDE" =>
        IF "ATTITUDE_QUATERNION" \in seen
        THEN out = <<>> /\ Unchanged /\ ~last.accepted
        ELSE /\ last.accepted
             /\ Unchanged
             /\ Sinks(out) = <<"uas_attitude_imu_enu", "uas_attitude_imu_ned", "imu_pub">>
             /\ \A i \in 1..Len(out) :
                   /\ out[i].msg.type = "Imu"
                   /\ out[i].msg.header.stamp = <<"sync", last.msg.time_boot_ms>>

\* An ATTITUDE message is dropped while the quaternion source is authoritative.
C2_Witness ==
    /\ last.kind = "ATTITUDE"
    /\ "ATTITUDE_QUATERNION" \in seen
    /\ out = <<>>

(***************************************************************************)
(* C3.  Every connection-changed event, connect or disconnect, leaves the  *)
(* three source flags false, and the message handled right after it, of    *)
(* whatever kind, is accepted (and, unless it is a HIGHRES_IMU carrying no  *)
(* field group, dispatched).                                               *)
(***************************************************************************)
C3_ResetRestoresInitialState ==
    [][ /\ (last'.kind = "connection")
            => (~has_hr_imu' /\ ~has_scaled_imu' /\ ~has_att_quat')
        /\ (last.kind = "connection" /\ last'.kind \in MessageKinds)
            => /\ last'.accepted
               /\ (last'.kind # "HIGHRES_IMU" => out' # <<>>) ]_vars

\* A connection event resets a state in which all three flags were set.
C3_Witness ==
    /\ last.kind = "connection"
    /\ pre.has_hr_imu /\ pre.has_scaled_imu /\ pre.has_att_quat
    /\ ~has_hr_imu /\ ~has_scaled_imu /\ ~has_att_quat

(***************************************************************************)
(* C4.  A message the arbiter drops (ATTITUDE after a quaternion, RAW_IMU  *)
(* after a HighRes or Scaled, SCALED_IMU or SCALED_PRESSURE after a        *)
(* HighRes) dispatches nothing and leaves every source flag and both       *)
(* cached acceleration vectors unchanged.                                  *)
(***************************************************************************)
ArbitratedAway ==
    \/ last.kind = "ATTITUDE" /\ "ATTITUDE_QUATERNION" \in seen
    \/ last.kind = "RAW_IMU" /\ ("HIGHRES_IMU" \in seen \/ "SCALED_IMU" \in seen)
    \/ last.kind \in {"SCALED_IMU", "SCALED_PRESSURE"} /\ "HIGHRES_IMU" \in seen

C4_DroppedMessageIsNoOp ==
    ArbitratedAway => (out = <<>> /\ Unchanged)

\* A SCALED_IMU message is dropped while the cache holds a real non-zero reading.
C4_Witness ==
    /\ last.kind = "SCALED_IMU"
    /\ "HIGHRES_IMU" \in seen
    /\ last_inertial.kind = "HIGHRES_IMU"
    /\ linear_accel_vec_enu # Zero3
    /\ last.msg.acc # Zero3
    /\ out = <<>>

(***************************************************************************)
(* C5.  As stated: every accepted attitude message that follows an         *)
(* accepted inertial message carries, in its ENU and NED record, the ENU   *)
(* and NED acceleration that the most recent inertial message established  *)
(* (the one it published in its raw-IMU record), not zero or a default.    *)
(***************************************************************************)
AttitudeAccepted == last.kind \in AttitudeKinds /\ last.accepted

C5_AsStated ==
    (AttitudeAccepted /\ last_inertial.kind # "none") =>
        /\ out[1].msg.linear_acceleration = last_inertial.accel_enu
        /\ out[2].msg.linear_acceleration = last_inertial.accel_ned

(***************************************************************************)
(* C5, amended.  Every accepted attitude message that follows an inertial  *)
(* message that published a raw-IMU record carries the cache as the latest *)
(* such message left it: that message's acceleration, ENU value in the ENU *)
(* record and NED value in the NED record, or zero in both when that       *)
(* message was a RAW_IMU handled on non-APM firmware.                      *)
(***************************************************************************)
CacheLeftBy(h) ==
    IF h.kind = "RAW_IMU" /\ ~h.is_ardupilotmega
    THEN [enu |-> Zero3, ned |-> Zero3]
    ELSE [enu |-> h.accel_enu, ned |-> h.accel_ned]

C5_AttitudeCarriesCachedAcceleration ==
    (AttitudeAccepted /\ last_inertial.kind # "none") =>
        /\ out[1].msg.linear_acceleration = CacheLeftBy(last_inertial).enu
        /\ out[2].msg.linear_acceleration = CacheLeftBy(last_inertial).ned
        /\ out[3].msg.linear_acceleration = CacheLeftBy(last_inertial).enu

\* An attitude record carries a non-zero reading whose ENU and NED values differ.
C5_Witness ==
    /\ AttitudeAccepted
    /\ last_inertial.kind = "SCALED_IMU"
    /\ last_inertial.accel_enu # last_inertial.accel_ned
    /\ out[1].msg.linear_acceleration = last_inertial.accel_enu
    /\ out[2].msg.linear_acceleration = last_inertial.accel_ned

(***************************************************************************)
(* C6.  Both cached vectors change only while an accepted inertial message *)
(* is handled: a connection event, an ATTITUDE, an ATTITUDE_QUATERNION and *)
(* a SCALED_PRESSURE message leave them as they were.                      *)
(***************************************************************************)
CacheUnchanged ==
    /\ linear_accel_vec_enu = pre.linear_accel_vec_enu
    /\ linear_accel_vec_ned = pre.linear_accel_vec_ned

C6_CacheWrittenOnlyByInertial ==
    /\ last.kind \in {"connection", "ATTITUDE", "ATTITUDE_QUATERNION", "SCALED_PRESSURE"}
           => CacheUnchanged
    /\ ~CacheUnchanged => (last.kind \in InertialKinds /\ last.accepted)

\* A real non-zero reading survives a connection event.
C6_Witness ==
    /\ last.kind = "connection"
    /\ last_inertial.kind # "none"
    /\ linear_accel_vec_enu # Zero3
    /\ linear_accel_vec_enu = last_inertial.accel_enu
    /\ linear_accel_vec_ned = last_inertial.accel_ned

(***************************************************************************)
(* C7.  A SCALED_PRESSURE message is dropped iff a HIGHRES_IMU message was *)
(* handled since the last connection event; otherwise it gives exactly one *)
(* temperature and one pressure dispatch, whatever other kinds were seen.  *)
(***************************************************************************)
C7_PressureGatedByHighresOnly ==
    last.kind = "SCALED_PRESSURE" =>
        IF "HIGHRES_IMU" \in seen
        THEN out = <<>> /\ ~last.accepted
        ELSE /\ last.accepted
             /\ Len(out) = 2
             /\ CountSink(out, "temp_pub") = 1
             /\ CountSink(out, "press_pub") = 1

\* A SCALED_PRESSURE message passes although SCALED_IMU, RAW_IMU and
\* ATTITUDE_QUATERNION were all handled on this connection.
C7_Witness ==
    /\ last.kind = "SCALED_PRESSURE"
    /\ {"SCALED_IMU", "RAW_IMU", "ATTITUDE_QUATERNION"} \subseteq seen
    /\ has_scaled_imu /\ has_att_quat
    /\ Len(out) = 2

(***************************************************************************)
(* C8.  As stated: for every accepted attitude message the NED record has  *)
(* the "unknown" orientation covariance (-1, then zeros), the ENU record   *)
(* the covariance of the configured orientation stdev, and both have the   *)
(* configured angular-rate and linear-acceleration covariances.            *)
(***************************************************************************)
UnknownCov == <<-1, 0, 0, 0, 0, 0, 0, 0, 0>>
DiagonalCov(stdev) ==
    IF stdev = 0 THEN UnknownCov
    ELSE <<stdev * stdev, 0, 0, 0, stdev * stdev, 0, 0, 0, stdev * stdev>>

RateAndAccelCovariances(m) ==
    /\ m.angular_velocity_covariance = DiagonalCov(params.angular_stdev)
    /\ m.linear_acceleration_covariance = DiagonalCov(params.linear_stdev)

C8_AsStated ==
    AttitudeAccepted =>
        /\ out[2].msg.orientation_covariance = UnknownCov
        /\ out[1].msg.orientation_covariance = DiagonalCov(params.orientation_stdev)
        /\ RateAndAccelCovariances(out[1].msg)
        /\ RateAndAccelCovariances(out[2].msg)

(***************************************************************************)
(* C8, amended.  The NED record has the same orientation covariance as the *)
(* ENU record, the one of the configured orientation stdev (the "unknown"  *)
(* sentinel only when that stdev is 0); both records have the configured   *)
(* angular-rate and linear-acceleration covariances.                       *)
(***************************************************************************)
C8_BothRecordsCarryOrientationCov ==
    AttitudeAccepted =>
        /\ out[2].msg.orientation_covariance = DiagonalCov(params.orientation_stdev)
        /\ out[1].msg.orientation_covariance = DiagonalCov(params.orientation_stdev)
        /\ RateAndAccelCovariances(out[1].msg)
        /\ RateAndAccelCovariances(out[2].msg)

\* An attitude message is accepted with a non-zero orientation stdev configured.
C8_Witness ==
    /\ AttitudeAccepted
    /\ params.orientation_stdev # 0
    /\ out[2].msg.header.frame_id = "aircraft"
    /\ out[2].msg.orientation_covariance # UnknownCov

(***************************************************************************)
(* C9.  Every accepted ATTITUDE or ATTITUDE_QUATERNION message yields      *)
(* exactly one ENU/base_link record and one NED/aircraft record, both with *)
(* that message's device time and the cached acceleration; the ENU record  *)
(* is published (and stored), the NED record is stored.  No other event    *)
(* hands a record to any of these sinks.                                   *)
(***************************************************************************)
AttitudeSinks == {"uas_attitude_imu_enu", "uas_attitude_imu_ned", "imu_pub"}

C9_OrientationRecordsComeInPairs ==
    IF AttitudeAccepted
    THEN /\ Sinks(out) = <<"uas_attitude_imu_enu", "uas_attitude_imu_ned", "imu_pub">>
         /\ out[3].msg = out[1].msg
         /\ out[1].msg.header = [frame_id |-> "base_link",
                                 stamp |-> <<"sync", last.msg.time_boot_ms>>]
         /\ out[2].msg.header = [frame_id |-> "aircraft",
                                 stamp |-> <<"sync", last.msg.time_boot_ms>>]
         /\ out[1].msg.linear_acceleration = pre.linear_accel_vec_enu
         /\ out[2].msg.linear_acceleration = pre.linear_accel_vec_ned
    ELSE \A i \in 1..Len(out) : out[i].sink \notin AttitudeSinks

\* An accepted quaternion message hands over both records.
C9_Witness ==
    /\ last.kind = "ATTITUDE_QUATERNION"
    /\ CountSink(out, "imu_pub") = 1
    /\ CountSink(out, "uas_attitude_imu_ned") = 1

(***************************************************************************)
(* C10.  As stated: a HIGHRES_IMU message with accel+gyro, magnetometer,   *)
(* pressure and temperature all marked present gives five dispatches, and  *)
(* a SCALED_IMU handled afterwards, before a connection event, gives none. *)
(***************************************************************************)
AllGroupsPresent(fields_updated) ==
    \A b \in (0..9) \cup {12} : (fields_updated \div 2^b) % 2 = 1

HighresWithAllGroups ==
    last.kind = "HIGHRES_IMU" /\ AllGroupsPresent(last.msg.fields_updated)

ScaledAfterHighres == last.kind = "SCALED_IMU" /\ "HIGHRES_IMU" \in seen

C10_AsStated ==
    /\ HighresWithAllGroups => Len(out) = 5
    /\ ScaledAfterHighres => out = <<>>

(***************************************************************************)
(* C10, amended.  Such a HIGHRES_IMU message gives four dispatches, one    *)
(* each to the raw-IMU, magnetic, pressure and temperature sink, in that   *)
(* order and none to an attitude sink; a SCALED_IMU handled afterwards,    *)
(* before a connection event, gives none.                                  *)
(***************************************************************************)
C10_HighresScenarioFourDispatches ==
    /\ HighresWithAllGroups
           => Sinks(out) = <<"imu_raw_pub", "magn_pub", "press_pub", "temp_pub">>
    /\ ScaledAfterHighres => out = <<>>

\* The SCALED_IMU of the scenario: dropped after a HIGHRES_IMU that published a record.
C10_Witness ==
    /\ ScaledAfterHighres
    /\ last_inertial.kind = "HIGHRES_IMU"
    /\ pre.has_hr_imu
    /\ out = <<>>

(***************************************************************************)
(* setup_covariance on its own (imu.cpp:143-151): one call on a matrix of  *)
(* arbitrary previous content, for every standard deviation in range.      *)
(***************************************************************************)
CovContents == [1..9 -> 0..MaxGarbage]
CovStdevs   == (0 - MaxCovStdev)..MaxCovStdev

InitCov ==
    /\ pc = "setup_covariance"
    /\ has_hr_imu = FALSE
    /\ has_scaled_imu = FALSE
    /\ has_att_quat = FALSE
    /\ linear_accel_vec_enu = Zero3
    /\ linear_accel_vec_ned = Zero3
    /\ linear_acceleration_cov = [i \in 1..9 |-> 0]
    /\ angular_velocity_cov = [i \in 1..9 |-> 0]
    /\ orientation_cov \in CovContents
    /\ unk_orientation_cov = [i \in 1..9 |-> 0]
    /\ magnetic_cov = [i \in 1..9 |-> 0]
    /\ last = Event("none", <<>>)
    /\ out = <<>>
    /\ effects = <<>>
    /\ pre = Snapshot
    /\ seen = {}
    /\ last_inertial = [kind |-> "none", is_ardupilotmega |-> FALSE,
                         accel_enu |-> Zero3, accel_ned |-> Zero3]
    /\ params = "unset"

\* setup_covariance(orientation_cov, stdev); the event records the argument and the
\* content the matrix had on entry.
call_setup_covariance(stdev) ==
    /\ pc = "setup_covariance"
    /\ pc' = "returned"
    /\ orientation_cov' = setup_covariance(orientation_cov, stdev)
    /\ last' = Event("setup_covariance", [stdev |-> stdev, cov |-> orientation_cov])
    /\ effects' = << Write("orientation_cov") >>
    /\ UNCHANGED <<flags, cache, linear_acceleration_cov, angular_velocity_cov,
                   unk_orientation_cov, magnetic_cov, out, pre, seen, last_inertial, params>>

NextCov == \E stdev \in CovStdevs : call_setup_covariance(stdev)

SpecCov == InitCov /\ [][NextCov]_vars

(***************************************************************************)
(* C11.  Covariance builder: for every standard deviation s the result is  *)
(* the unknown sentinel [-1,0,0,0,0,0,0,0,0] when s is 0, and otherwise    *)
(* has s*s at indices 0, 4 and 8 (row-major) and 0 at the six others;      *)
(* whatever the matrix held before is overwritten.                         *)
(***************************************************************************)
C11_CovarianceBuilder ==
    last.kind = "setup_covariance" =>
        LET s == last.msg.stdev
        IN  /\ DOMAIN orientation_cov = 1..9
            /\ s = 0 => orientation_cov = <<-1, 0, 0, 0, 0, 0, 0, 0, 0>>
            /\ s # 0 => /\ \A i \in {1, 5, 9} : orientation_cov[i] = s * s
                        /\ \A i \in {2, 3, 4, 6, 7, 8} : orientation_cov[i] = 0

\* A non-zero stdev applied to a matrix whose nine entries were all non-zero and
\* differed from the result.
C11_Witness ==
    /\ last.kind = "setup_covariance"
    /\ last.msg.stdev = 0 - MaxCovStdev
    /\ \A i \in 1..9 : last.msg.cov[i] # 0 /\ last.msg.cov[i] # orientation_cov[i]
    /\ orientation_cov[1] = MaxCovStdev * MaxCovStdev
    /\ orientation_cov[2] = 0

(***************************************************************************)
(* C12, as stated.  Between two consecutive connection events at most one  *)
(* of the three source flags turns true, so in every reachable state at    *)
(* most one of them is true.                                               *)
(***************************************************************************)
FlagsSet(f) ==
    Cardinality({ n \in {"has_hr_imu", "has_scaled_imu", "has_att_quat"} : f[n] })

C12_AsStated == FlagsSet(Snapshot) <= 1

(***************************************************************************)
(* C12, amended.  Between two consecutive connection events a source flag  *)
(* only goes from false to true, one flag at most per message, and the     *)
(* scaled-IMU flag never turns true while the high-resolution flag is      *)
(* set.  The flags are not mutually exclusive: the high-resolution flag    *)
(* turns true after the scaled-IMU flag, and the quaternion flag whatever  *)
(* the other two are, so all three can be true at once.                    *)
(***************************************************************************)
C12_FlagsOnlyRiseBetweenResets ==
    last.kind \notin {"none", "connection"} =>
        /\ pre.has_hr_imu => has_hr_imu
        /\ pre.has_scaled_imu => has_scaled_imu
        /\ pre.has_att_quat => has_att_quat
        /\ FlagsSet(Snapshot) <= FlagsSet(pre) + 1
        /\ (has_scaled_imu /\ ~pre.has_scaled_imu) => ~has_hr_imu

\* The third flag turns true while the other two are set.
C12_Witness ==
    /\ last.kind = "HIGHRES_IMU"
    /\ ~pre.has_hr_imu /\ pre.has_scaled_imu /\ pre.has_att_quat
    /\ FlagsSet(Snapshot) = 3

(***************************************************************************)
(* C13, as stated.  First-seen-wins: the kind first accepted in a class    *)
(* (attitude: ATTITUDE, ATTITUDE_QUATERNION; inertial: HIGHRES_IMU,        *)
(* SCALED_IMU, RAW_IMU) after a connection event stays the only accepted   *)
(* kind of the class until the next connection event.  In particular a     *)
(* message that directly follows an accepted message of another kind of    *)
(* its class is suppressed.                                                *)
(***************************************************************************)
SourceClasses == {AttitudeKinds, InertialKinds}

C13_AsStated ==
    [][ \A class \in SourceClasses :
            (/\ last.kind \in class /\ last.accepted
             /\ last'.kind \in class /\ last'.kind # last.kind)
                => ~last'.accepted ]_vars

(***************************************************************************)
(* C13, amended.  Highest-priority-seen wins: ATTITUDE_QUATERNION outranks *)
(* ATTITUDE, and HIGHRES_IMU outranks SCALED_IMU, which outranks RAW_IMU.  *)
(* A message is suppressed exactly when a kind that outranks it has been   *)
(* handled since the last connection event; a kind that is accepted first  *)
(* is displaced as soon as a kind that outranks it arrives.                *)
(***************************************************************************)
Outranking(kind) ==
    CASE kind = "ATTITUDE"   -> {"ATTITUDE_QUATERNION"}
      [] kind = "RAW_IMU"    -> {"HIGHRES_IMU", "SCALED_IMU"}
      [] kind = "SCALED_IMU" -> {"HIGHRES_IMU"}
      [] OTHER               -> {}

C13_HighestPrioritySeenWins ==
    last.kind \in AttitudeKinds \cup InertialKinds =>
        (last.accepted <=> seen \cap Outranking(last.kind) = {})

\* A SCALED_IMU message is accepted although RAW_IMU was the kind accepted first.
C13_Witness ==
    /\ last.kind = "SCALED_IMU" /\ last.accepted
    /\ "RAW_IMU" \in seen
    /\ ~pre.has_scaled_imu /\ ~pre.has_hr_imu
    /\ Sinks(out) = <<"imu_raw_pub", "magn_pub">>

(***************************************************************************)
(* C14, as stated.  While one accepted message is handled, every write to  *)
(* component state (source flags, cached acceleration) comes before the    *)
(* first dispatch for that message; none comes between or after its        *)
(* dispatches.                                                             *)
(***************************************************************************)
MessageAccepted == last.kind \in MessageKinds /\ last.accepted

WritesPrecedeDispatches(e) ==
    \A i, j \in 1..Len(e) : (e[i].op = "write" /\ e[j].op = "dispatch") => i < j

C14_AsStated == MessageAccepted => WritesPrecedeDispatches(effects)

(***************************************************************************)
(* C14, amended.  That order holds for every accepted message except a     *)
(* RAW_IMU message on non-APM firmware: there the cached acceleration is   *)
(* written, the raw-IMU record is dispatched, the cached acceleration is   *)
(* written again (zeroed) and only then the magnetic record is             *)
(* dispatched.  The recorded order agrees with the dispatches made and     *)
(* covers every member the step changed.                                   *)
(***************************************************************************)
RawOffApm == last.kind = "RAW_IMU" /\ ~last.is_ardupilotmega

C14_WritesPrecedeDispatchesExceptRawOffApm ==
    /\ EffectsConsistent
    /\ MessageAccepted =>
           IF RawOffApm
           THEN effects = << Write("linear_accel_vec_enu"), Write("linear_accel_vec_ned"),
                             Publish("imu_raw_pub"),
                             Write("linear_accel_vec_enu"), Write("linear_accel_vec_ned"),
                             Publish("magn_pub") >>
           ELSE WritesPrecedeDispatches(effects)

\* A non-APM RAW_IMU whose record went out with the reading the cache no longer holds.
C14_Witness ==
    /\ MessageAccepted /\ RawOffApm
    /\ effects[3] = Publish("imu_raw_pub") /\ effects[4].op = "write"
    /\ out[1].msg.linear_acceleration # Zero3
    /\ linear_accel_vec_enu = Zero3

(***************************************************************************)
(* C15, as stated.  Every accepted HIGHRES_IMU, SCALED_IMU or RAW_IMU      *)
(* message overwrites the cached acceleration pair with the message's      *)
(* acceleration and dispatches exactly one raw-IMU record, carrying the    *)
(* angular rate, the linear acceleration and the unknown orientation       *)
(* covariance.                                                             *)
(***************************************************************************)
InertialAccepted == last.kind \in InertialKinds /\ last.accepted

\* The message's readings in the units of the records, aircraft frame.
MessageAccel ==
    CASE last.kind = "HIGHRES_IMU" -> Scale(last.msg.acc, AccUnit)
      [] last.kind = "SCALED_IMU"  -> Scale(last.msg.acc, MILLIG_TO_MS2)
      [] last.kind = "RAW_IMU"     ->
             Scale(last.msg.acc, IF last.is_ardupilotmega THEN MILLIG_TO_MS2 ELSE AccUnit)
MessageGyro ==
    Scale(last.msg.gyro, IF last.kind = "HIGHRES_IMU" THEN GyroUnit ELSE MILLIRS_TO_RADSEC)

Rotated(v) == <<v[1], 0 - v[2], 0 - v[3]>>

OneRawRecord ==
    /\ CountSink(out, "imu_raw_pub") = 1
    /\ out[1].sink = "imu_raw_pub"
    /\ out[1].msg.header.frame_id = frame_id
    /\ out[1].msg.angular_velocity = Rotated(MessageGyro)
    /\ out[1].msg.linear_acceleration = Rotated(MessageAccel)
    /\ out[1].msg.orientation_covariance = UnknownCov

CacheHoldsMessageAccel ==
    /\ linear_accel_vec_ned = MessageAccel
    /\ linear_accel_vec_enu = Rotated(MessageAccel)

C15_AsStated == InertialAccepted => (CacheHoldsMessageAccel /\ OneRawRecord)

(***************************************************************************)
(* C15, amended.  An accepted HIGHRES_IMU message with none of the         *)
(* accel+gyro bits 0-5 set dispatches no raw-IMU record and leaves the     *)
(* cached pair as it was.  Every other accepted inertial message           *)
(* dispatches exactly one raw-IMU record with the message's angular rate   *)
(* and acceleration and the unknown orientation covariance, and leaves the *)
(* cached pair holding the message's acceleration, except RAW_IMU on       *)
(* non-APM firmware, which leaves it zero in both frames.                  *)
(***************************************************************************)
HighresWithoutAccelGyro ==
    last.kind = "HIGHRES_IMU" /\ last.msg.fields_updated % 64 = 0

C15_AcceptedInertialRecordAndCache ==
    InertialAccepted =>
        IF HighresWithoutAccelGyro
        THEN CountSink(out, "imu_raw_pub") = 0 /\ CacheUnchanged
        ELSE /\ OneRawRecord
             /\ IF RawOffApm
                THEN linear_accel_vec_enu = Zero3 /\ linear_accel_vec_ned = Zero3
                ELSE CacheHoldsMessageAccel

\* An accepted HIGHRES_IMU that carries a magnetometer reading only: the cache keeps
\* the earlier reading, which is not the message's.
C15_Witness ==
    /\ InertialAccepted /\ HighresWithoutAccelGyro
    /\ Sinks(out) = <<"magn_pub">>
    /\ last_inertial.kind # "none"
    /\ linear_accel_vec_ned # MessageAccel

(***************************************************************************)
(* C16.  Exact acceptance rule of the inertial class, priority HighRes >   *)
(* Scaled > Raw: a HIGHRES_IMU message is always accepted; a SCALED_IMU    *)
(* message is accepted iff no HIGHRES_IMU was handled since the last       *)
(* connection event; a RAW_IMU message is accepted iff neither a           *)
(* HIGHRES_IMU nor a SCALED_IMU was handled since then.  An accepted       *)
(* SCALED_IMU or RAW_IMU dispatches, a dropped one does not.  (seen is     *)
(* the history before the step, last' the message the step handles.)       *)
(***************************************************************************)
C16_ExactInertialAcceptance ==
    [][ /\ last'.kind = "HIGHRES_IMU" => last'.accepted
        /\ last'.kind = "SCALED_IMU" =>
               /\ last'.accepted <=> "HIGHRES_IMU" \notin seen
               /\ last'.accepted <=> out' # <<>>
        /\ last'.kind = "RAW_IMU" =>
               /\ last'.accepted <=> (seen \cap {"HIGHRES_IMU", "SCALED_IMU"} = {})
               /\ last'.accepted <=> out' # <<>> ]_vars

\* A RAW_IMU dropped because a SCALED_IMU, and no HIGHRES_IMU, was accepted before it.
C16_Witness ==
    /\ last.kind = "RAW_IMU" /\ ~last.accepted /\ out = <<>>
    /\ last_inertial.kind = "SCALED_IMU"
    /\ "HIGHRES_IMU" \notin seen
    /\ pre.has_scaled_imu /\ ~pre.has_hr_imu

(***************************************************************************)
(* C17.  Degraded mode of the Raw path: after every accepted RAW_IMU       *)
(* handled on non-APM firmware the cached acceleration is zero in both     *)
(* frames, although the raw-IMU record dispatched for it carries the       *)
(* message's unscaled acceleration; on APM the cache holds the message's   *)
(* acceleration scaled from milli-G and is not zeroed.                     *)
(***************************************************************************)
RawAccepted == last.kind = "RAW_IMU" /\ last.accepted

C17_RawDegradedMode ==
    RawAccepted =>
        IF last.is_ardupilotmega
        THEN /\ linear_accel_vec_ned = Scale(last.msg.acc, MILLIG_TO_MS2)
             /\ linear_accel_vec_enu = Rotated(Scale(last.msg.acc, MILLIG_TO_MS2))
             /\ out[1].msg.linear_acceleration = linear_accel_vec_enu
        ELSE /\ linear_accel_vec_ned = Zero3
             /\ linear_accel_vec_enu = Zero3
             /\ out[1].sink = "imu_raw_pub"
             /\ out[1].msg.linear_acceleration = Rotated(Scale(last.msg.acc, AccUnit))

\* A non-APM RAW_IMU with a non-zero reading zeroes a cache that an earlier message
\* had left non-zero.
C17_Witness ==
    /\ RawAccepted /\ ~last.is_ardupilotmega
    /\ last.msg.acc # Zero3
    /\ out[1].msg.linear_acceleration # Zero3
    /\ pre.linear_accel_vec_ned # Zero3
    /\ linear_accel_vec_ned = Zero3 /\ linear_accel_vec_enu = Zero3

(***************************************************************************)
(* handle_highres_imu on its own (imu.cpp:334-385): one HIGHRES_IMU        *)
(* message with any fields_updated, handled by an initialised plugin on a  *)
(* fresh connection.                                                       *)
(***************************************************************************)
AllFieldsUpdated == 0..(2^(MaxFieldBit + 1) - 1)

HighresImuAnyFields ==
    { [time_usec |-> TimeOf(MaxSample), acc |-> Vec(MaxSample, 1, 2, 3),
       gyro |-> Vec(MaxSample, 4, 5, 6), mag |-> Vec(MaxSample, 7, 8, 9),
       abs_pressure |-> 1000 + MaxSample, temperature |-> 20 + MaxSample,
       fields_updated |-> f] :
        f \in AllFieldsUpdated }

InitHr ==
    /\ pc = "ready"
    /\ has_hr_imu = FALSE
    /\ has_scaled_imu = FALSE
    /\ has_att_quat = FALSE
    /\ linear_accel_vec_enu \in GarbageVec
    /\ linear_accel_vec_ned = linear_accel_vec_enu
    /\ params = CHOOSE p \in StdevParams : p.orientation_stdev = MaxStdev
    /\ linear_acceleration_cov = setup_covariance(Zero3 \o Zero3 \o Zero3, params.linear_stdev)
    /\ angular_velocity_cov = setup_covariance(Zero3 \o Zero3 \o Zero3, params.angular_stdev)
    /\ orientation_cov = setup_covariance(Zero3 \o Zero3 \o Zero3, params.orientation_stdev)
    /\ magnetic_cov = setup_covariance(Zero3 \o Zero3 \o Zero3, params.mag_stdev)
    /\ unk_orientation_cov = setup_covariance(Zero3 \o Zero3 \o Zero3, 0)
    /\ last = Event("none", <<>>)
    /\ out = <<>>
    /\ effects = <<>>
    /\ pre = Snapshot
    /\ seen = {}
    /\ last_inertial = [kind |-> "none", is_ardupilotmega |-> FALSE,
                         accel_enu |-> Zero3, accel_ned |-> Zero3]

first_highres_imu ==
    /\ last.kind = "none"
    /\ \E imu_hr \in HighresImuAnyFields : handle_highres_imu(imu_hr)

NextHr == first_highres_imu

SpecHr == InitHr /\ [][NextHr]_vars

(***************************************************************************)
(* C18.  Independent bitmask gating in HIGHRES_IMU handling: for every     *)
(* value of fields_updated a raw-IMU record is dispatched (and the cache   *)
(* updated) iff one of bits 0-5 is set, a magnetic record iff one of bits  *)
(* 6-8, a pressure record iff bit 9, a temperature record iff bit 12;      *)
(* each decision depends on its own bits only, and the dispatches come in  *)
(* the order raw-IMU, magnetic, pressure, temperature.                     *)
(***************************************************************************)
BitSet(f, b)       == (f \div 2^b) % 2 = 1
AnyBitSet(f, bits) == \E b \in bits : BitSet(f, b)

SinksFor(f) ==
    (IF AnyBitSet(f, 0..5) THEN <<"imu_raw_pub">> ELSE <<>>)
        \o (IF AnyBitSet(f, 6..8) THEN <<"magn_pub">> ELSE <<>>)
        \o (IF BitSet(f, 9) THEN <<"press_pub">> ELSE <<>>)
        \o (IF BitSet(f, 12) THEN <<"temp_pub">> ELSE <<>>)

C18_IndependentBitmaskGating ==
    last.kind = "HIGHRES_IMU" =>
        /\ Sinks(out) = SinksFor(last.msg.fields_updated)
        /\ IF AnyBitSet(last.msg.fields_updated, 0..5)
           THEN CacheHoldsMessageAccel
           ELSE CacheUnchanged

\* Pressure alone is dispatched although bits of no group (10, 11) are set beside
\* bit 9, and the cache keeps what it held.
C18_Witness ==
    /\ last.kind = "HIGHRES_IMU"
    /\ last.msg.fields_updated = 2^9 + 2^10 + 2^11
    /\ Sinks(out) = <<"press_pub">>
    /\ CacheUnchanged /\ ~CacheHoldsMessageAccel

(***************************************************************************)
(* C19.  A HIGHRES_IMU message sets the high-resolution flag whatever its  *)
(* field-presence mask: with none of the accel/gyro, magnetometer,         *)
(* pressure and temperature bits set it dispatches nothing and leaves the  *)
(* cache unchanged, yet sets the flag; while the flag is set, that is      *)
(* until the next connection event, every SCALED_IMU, RAW_IMU and          *)
(* SCALED_PRESSURE message is dropped without a dispatch.                  *)
(***************************************************************************)
NoGroupBit(f) == ~AnyBitSet(f, (0..9) \cup {12})

C19_EmptyHighresStarvesLowerSources ==
    [][ /\ (last'.kind = "HIGHRES_IMU" /\ NoGroupBit(last'.msg.fields_updated)) =>
               /\ out' = <<>>
               /\ UNCHANGED cache
               /\ has_hr_imu'
        /\ (has_hr_imu /\ last'.kind \in {"SCALED_IMU", "RAW_IMU", "SCALED_PRESSURE"}) =>
               /\ ~last'.accepted
               /\ out' = <<>>
        /\ (has_hr_imu /\ last'.kind # "connection") => has_hr_imu' ]_vars

\* A SCALED_PRESSURE message is dropped on a connection whose HIGHRES_IMU messages
\* never carried an accel+gyro reading, after no inertial message published at all.
C19_Witness ==
    /\ last.kind = "SCALED_PRESSURE" /\ ~last.accepted /\ out = <<>>
    /\ "HIGHRES_IMU" \in seen /\ seen \cap {"SCALED_IMU", "RAW_IMU"} = {}
    /\ last_inertial.kind = "none"
    /\ has_hr_imu

(***************************************************************************)
(* C20, as stated.  Cached pair consistency: the ENU and NED cached        *)
(* vectors are always written in the same step, and in every state after   *)
(* the first accepted inertial message the cached ENU vector is the        *)
(* aircraft-to-base_link rotation of the cached NED vector.  (The first    *)
(* inertial message on a connection is always accepted, so an inertial     *)
(* kind in seen means that one has been accepted.)                         *)
(***************************************************************************)
CacheWrittenInPairs ==
    /\ "linear_accel_vec_enu" \in WritesOf(effects)
           <=> "linear_accel_vec_ned" \in WritesOf(effects)
    /\ (linear_accel_vec_enu # pre.linear_accel_vec_enu
           \/ linear_accel_vec_ned # pre.linear_accel_vec_ned)
          => "linear_accel_vec_enu" \in WritesOf(effects)

C20_AsStated ==
    /\ CacheWrittenInPairs
    /\ seen \cap InertialKinds # {} =>
           linear_accel_vec_enu = transform_frame_aircraft_baselink(linear_accel_vec_ned)

====
